---- MODULE Spec2Model ----
(***************************************************************************)
(* Model of utils/filter_streams.cc: filter_ostream and filter_istream,    *)
(* the compression-aware streams of the ML namespace.  A file name is a    *)
(* sequence of one-character strings, a pipeline is the sequence of        *)
(* components pushed on a boost filtering stream (filters first, the       *)
(* device last).                                                           *)
(***************************************************************************)
EXTENDS Integers, Sequences, FiniteSets, TLC

VARIABLES os, is, files, released, lastCall, focus

vars == <<os, is, files, released, lastCall, focus>>

(***************************************************************************)
(* Bounds and program constants                                            *)
(***************************************************************************)
MaxParts == 2

MaxPipes == 2

MaxBuf == 1

npos == -1

DefaultLevel == -1

(***************************************************************************)
(* Strings                                                                 *)
(***************************************************************************)
GZ == <<".", "g", "z">>

GZT == <<".", "g", "z", "~">>

BZ2 == <<".", "b", "z", "2">>

BZ2T == <<".", "b", "z", "2", "~">>

XZ == <<".", "x", "z">>

XZT == <<".", "x", "z", "~">>

DevNull == <<"/", "d", "e", "v", "/", "n", "u", "l", "l">>

Dash == <<"-">>

SetMax(S) == CHOOSE m \in S : \A x \in S : x <= m

\* std::string::rfind: the highest position at which `what` occurs, or npos.
\* A size_t is represented by its value, npos (all ones) by -1.
rfind(str, what) ==
    LET hits == {i \in 0..(Len(str) - Len(what)) :
                     SubSeq(str, i + 1, i + Len(what)) = what}
    IN IF hits = {} THEN npos ELSE SetMax(hits)

\* A plausible slip: the position of the match is not compared with the tail.
ends_with_contains(str, what) ==
    rfind(str, what) /= npos

ends_with(str, what) ==
    LET result == rfind(str, what)
    IN result /= npos /\ result = Len(str) - Len(what)

\* if (file == "") file = "/dev/null";
NormFile(file_) == IF file_ = <<>> THEN DevNull ELSE file_

(***************************************************************************)
(* Input universes                                                         *)
(***************************************************************************)
Pieces ==
    {GZ, GZT, BZ2, BZ2T, XZ, XZT, <<"~">>, <<"a">>, <<"g", "z">>,
     <<".", "G", "Z">>}

RECURSIVE Concats(_)
Concats(n) ==
    IF n = 0 THEN {<<>>}
    ELSE LET S == Concats(n - 1) IN S \cup {p \o t : p \in Pieces, t \in S}

\* "archive.gz~", "archive.tar.gz", "archive.gzip", "out.gz"
Archive == <<"a", "r", "c", "h", "i", "v", "e">>

Examples ==
    {Archive \o GZT,
     Archive \o <<".", "t", "a", "r">> \o GZ,
     Archive \o <<".", "g", "z", "i", "p">>,
     <<"o", "u", "t">> \o GZ}

Names == Concats(MaxParts) \cup {Dash} \cup Examples

LifeNames == {Dash, <<"a">>, <<"a">> \o GZ}

Compressions ==
    {"", "none", "gz", "gzip", "bz2", "bzip2", "lzma", "xz", "bogus", "GZ"}

LifeCompressions == {"", "gz", "bogus"}

Levels == {DefaultLevel, 9}

Modes == {"out", "app"}

Fds == {3}

Payloads == {<<"p">>}

Bits == {"failbit", "badbit", "eofbit"}

(***************************************************************************)
(* Pipelines: the components pushed on a filtering stream                  *)
(***************************************************************************)
Component(kind, codec, hasLevel, level, dev, name, fd, mode, closes) ==
    [kind |-> kind, codec |-> codec, hasLevel |-> hasLevel, level |-> level,
     dev |-> dev, name |-> name, fd |-> fd, mode |-> mode, closes |-> closes]

\* if (level == -1) push(X_compressor()); else push(X_compressor(level));
compressor(codec, level) ==
    IF level = DefaultLevel
    THEN Component("compressor", codec, FALSE, 0, "", <<>>, 0, "", FALSE)
    ELSE Component("compressor", codec, TRUE, level, "", <<>>, 0, "", FALSE)

decompressor(codec) ==
    Component("decompressor", codec, FALSE, 0, "", <<>>, 0, "", FALSE)

\* std::cout / std::cin pushed as the device
std_device(which) ==
    Component("device", "", FALSE, 0, which, <<>>, 0, "", FALSE)

\* file_sink sink(file.c_str(), mode) / file_source source(file.c_str(), mode)
file_device(file, mode) ==
    Component("device", "", FALSE, 0,
              IF file = DevNull THEN "null" ELSE "file", file, 0, mode, TRUE)

\* file_descriptor_sink(fd, never_close_handle)
fd_device(fd) ==
    Component("device", "", FALSE, 0, "fd", <<>>, fd, "", FALSE)

push(chain, c) == Append(chain, c)

NoPipe == [id |-> 0, chain |-> <<>>, buf |-> <<>>]

Pipe(id, chain) == [id |-> id, chain |-> chain, buf |-> <<>>]

Filters(chain) == SelectSeq(chain, LAMBDA c : c.kind /= "device")

Devices(chain) == SelectSeq(chain, LAMBDA c : c.kind = "device")

(***************************************************************************)
(* Codec selection                                                         *)
(***************************************************************************)
\* A plausible slip: an unrecognised name falls through to suffix inference.
file_filters_fallback(compression, file, level) ==
    IF compression = "gz" \/ compression = "gzip"
       \/ (compression \notin {"none", "bz2", "bzip2", "lzma", "xz"}
           /\ (ends_with(file, GZ) \/ ends_with(file, GZT)))
    THEN [throws |-> FALSE, chain |-> push(<<>>, compressor("gzip", level))]
    ELSE IF compression = "bz2" \/ compression = "bzip2"
       \/ (compression \notin {"none", "lzma", "xz"}
           /\ (ends_with(file, BZ2) \/ ends_with(file, BZ2T)))
    THEN [throws |-> FALSE, chain |-> push(<<>>, compressor("bzip2", level))]
    ELSE IF compression = "lzma" \/ compression = "xz"
       \/ (compression /= "none"
           /\ (ends_with(file, XZ) \/ ends_with(file, XZT)))
    THEN [throws |-> FALSE, chain |-> push(<<>>, compressor("lzma", level))]
    ELSE [throws |-> FALSE, chain |-> <<>>]

\* A plausible slip: independent ifs, the suffix tested whatever the name.
file_filters_stacked(compression, file, level) ==
    LET c1 == IF compression = "gz" \/ compression = "gzip"
                 \/ ends_with(file, GZ) \/ ends_with(file, GZT)
              THEN push(<<>>, compressor("gzip", level)) ELSE <<>>
        c2 == IF compression = "bz2" \/ compression = "bzip2"
                 \/ ends_with(file, BZ2) \/ ends_with(file, BZ2T)
              THEN push(c1, compressor("bzip2", level)) ELSE c1
        c3 == IF compression = "lzma" \/ compression = "xz"
                 \/ ends_with(file, XZ) \/ ends_with(file, XZT)
              THEN push(c2, compressor("lzma", level)) ELSE c2
    IN [throws |-> compression \notin {"", "none", "gz", "gzip", "bz2",
                                       "bzip2", "lzma", "xz"},
        chain |-> c3]

\* filter_ostream::open(const std::string &, ...): the compressor pushed, or
\* the unknown-compression throw.
file_filters(compression, file, level) ==
    IF compression = "gz" \/ compression = "gzip"
       \/ (compression = ""
           /\ (ends_with(file, GZ) \/ ends_with(file, GZT)))
    THEN [throws |-> FALSE, chain |-> push(<<>>, compressor("gzip", level))]
    ELSE IF compression = "bz2" \/ compression = "bzip2"
       \/ (compression = ""
           /\ (ends_with(file, BZ2) \/ ends_with(file, BZ2T)))
    THEN [throws |-> FALSE, chain |-> push(<<>>, compressor("bzip2", level))]
    ELSE IF compression = "lzma" \/ compression = "xz"
       \/ (compression = ""
           /\ (ends_with(file, XZ) \/ ends_with(file, XZT)))
    THEN [throws |-> FALSE, chain |-> push(<<>>, compressor("lzma", level))]
    ELSE IF compression /= "" /\ compression /= "none"
    THEN [throws |-> TRUE, chain |-> <<>>]
    ELSE [throws |-> FALSE, chain |-> <<>>]

\* filter_ostream::open(int, ...): the compressor pushed, or the throw.
fd_filters(compression, level) ==
    IF compression = "gz" \/ compression = "gzip"
    THEN [throws |-> FALSE, chain |-> push(<<>>, compressor("gzip", level))]
    ELSE IF compression = "bz2" \/ compression = "bzip2"
    THEN [throws |-> FALSE, chain |-> push(<<>>, compressor("bzip2", level))]
    ELSE IF compression = "lzma" \/ compression = "xz"
    THEN [throws |-> FALSE, chain |-> push(<<>>, compressor("lzma", level))]
    ELSE IF compression /= "" /\ compression /= "none"
    THEN [throws |-> TRUE, chain |-> <<>>]
    ELSE [throws |-> FALSE, chain |-> <<>>]

\* A plausible slip: the backup-file variant of the gzip suffix is forgotten.
in_filters_no_backup(file) ==
    LET gzip == ends_with(file, GZ)
        bzip2 == ends_with(file, BZ2) \/ ends_with(file, BZ2T)
        lzma == ends_with(file, XZ) \/ ends_with(file, XZT)
        c1 == IF gzip THEN push(<<>>, decompressor("gzip")) ELSE <<>>
        c2 == IF bzip2 THEN push(c1, decompressor("bzip2")) ELSE c1
    IN IF lzma THEN push(c2, decompressor("lzma")) ELSE c2

\* filter_istream::open: three independent tests, each pushing its filter.
in_filters(file) ==
    LET gzip == ends_with(file, GZ) \/ ends_with(file, GZT)
        bzip2 == ends_with(file, BZ2) \/ ends_with(file, BZ2T)
        lzma == ends_with(file, XZ) \/ ends_with(file, XZT)
        c1 == IF gzip THEN push(<<>>, decompressor("gzip")) ELSE <<>>
        c2 == IF bzip2 THEN push(c1, decompressor("bzip2")) ELSE c1
    IN IF lzma THEN push(c2, decompressor("lzma")) ELSE c2

(***************************************************************************)
(* The codec library and the file system                                   *)
(***************************************************************************)
Magic(codec) ==
    CASE codec = "gzip" -> "GZIP"
      [] codec = "bzip2" -> "BZh"
      [] OTHER -> "XZ"

\* compress(buffer) -> bytes: the codec's container around the payload
Compress(codec, bytes) == <<Magic(codec)>> \o bytes

\* decompress(buffer) -> bytes, failing on bytes that are not the codec's
Decompress(codec, bytes) ==
    IF bytes /= <<>> /\ Head(bytes) = Magic(codec)
    THEN [ok |-> TRUE, data |-> Tail(bytes)]
    ELSE [ok |-> FALSE, data |-> <<>>]

\* What a written buffer becomes on its way to the sink: the filters apply in
\* the order they were pushed.
RECURSIVE Encode(_, _)
Encode(filters, bytes) ==
    IF filters = <<>> THEN bytes
    ELSE Encode(Tail(filters), Compress(Head(filters).codec, bytes))

\* What the source's bytes become on their way to the reader: the filter
\* pushed last is the one next to the source.
RECURSIVE Decode(_, _)
Decode(filters, bytes) ==
    IF filters = <<>> THEN [ok |-> TRUE, data |-> bytes]
    ELSE LET inner == Decode(Tail(filters), bytes)
         IN IF inner.ok THEN Decompress(Head(filters).codec, inner.data)
            ELSE inner

NoFile == [exists |-> FALSE, data |-> <<>>]

NullFile == [exists |-> TRUE, data |-> <<>>]

InitFiles(names) ==
    [f \in {NormFile(n) : n \in names \ {Dash}} |->
        IF f = DevNull THEN NullFile ELSE NoFile]

\* Opening a file for writing creates it; without ios::app it is truncated.
OpenForWrite(fs, file, mode) ==
    IF file = DevNull THEN fs
    ELSE [fs EXCEPT ![file] =
             [exists |-> TRUE,
              data |-> IF mode = "app" THEN fs[file].data ELSE <<>>]]

\* The bytes of a sink written from position 0 (or appended, with ios::app).
WriteAt(data, bytes, mode) ==
    IF mode = "app" THEN data \o bytes
    ELSE bytes \o SubSeq(data, Len(bytes) + 1, Len(data))

\* Tearing a pipeline down flushes what was written through its filters to
\* its device.
Teardown(fs, pipe) ==
    LET devs == Devices(pipe.chain)
        dev == devs[1]
    IN IF devs = <<>> \/ dev.dev /= "file" THEN fs
       ELSE [fs EXCEPT ![dev.name].data =
                WriteAt(fs[dev.name].data,
                        Encode(Filters(pipe.chain), pipe.buf), dev.mode)]

(***************************************************************************)
(* Stream state (std::ios)                                                 *)
(***************************************************************************)
fail(state) == "failbit" \in state \/ "badbit" \in state

bad(state) == "badbit" \in state

eof(state) == "eofbit" \in state

\* std::ios::clear(state) with the given buffer: a null buffer forces badbit
cleared(rdbuf, state) == IF rdbuf = "null" THEN state \cup {"badbit"} ELSE state

\* whether clear() ends by throwing ios_base::failure
clear_throws(exc, state) == exc \cap state /= {}

Unbuilt ==
    [life |-> "none", rdbuf |-> "null", stream |-> NoPipe, state |-> {},
     exc |-> {}, got |-> <<>>]

\* ostream(std::cout.rdbuf()) / istream(std::cin.rdbuf())
Constructed ==
    [life |-> "alive", rdbuf |-> "std", stream |-> NoPipe, state |-> {},
     exc |-> {}, got |-> <<>>]

Call(op, file, comp, level, outcome, text) ==
    [op |-> op, file |-> file, comp |-> comp, level |-> level,
     outcome |-> outcome, text |-> text]

NoCall == Call("none", <<>>, "", DefaultLevel, "ok", <<>>)

(***************************************************************************)
(* filter_ostream                                                          *)
(***************************************************************************)
Result(outcome, s, made, pipe) ==
    [outcome |-> outcome, s |-> s, made |-> made, pipe |-> pipe]

\* stream.reset(new_stream.release()); rdbuf(stream->rdbuf());
install(s, pipe) ==
    [s EXCEPT !.stream = pipe, !.rdbuf = "pipe",
              !.state = cleared("pipe", {}), !.got = <<>>]

\* A plausible slip: the old pipeline is dropped before the new one is built,
\* so a failing open leaves the stream without a pipeline.
open_throw_reset(s) ==
    [s EXCEPT !.stream = NoPipe, !.rdbuf = "null", !.state = {"badbit"}]

\* The stream as a throw inside open() leaves it: new_stream is an auto_ptr,
\* the members are not touched before stream.reset().
open_throw(s) == s

\* filter_ostream::open(const std::string &, mode, compression, level)
out_open_file(s, id, file_, mode, compression, level, canOpen) ==
    LET s1 == [s EXCEPT !.exc = {"badbit", "failbit"}]
        file == NormFile(file_)
        sel == file_filters(compression, file, level)
        chain == IF file = Dash THEN push(sel.chain, std_device("stdout"))
                 ELSE push(sel.chain, file_device(file, mode))
    IN IF clear_throws(s1.exc, cleared(s.rdbuf, s.state))
       THEN Result("ios_failure", open_throw(s1), FALSE, NoPipe)
       ELSE IF sel.throws
       THEN Result("unknown_codec", open_throw(s1), TRUE, Pipe(id, sel.chain))
       ELSE IF file /= Dash /\ ~canOpen
       THEN Result("open_failed", open_throw(s1), TRUE, Pipe(id, sel.chain))
       ELSE Result("ok", install(s1, Pipe(id, chain)), TRUE, Pipe(id, chain))

\* filter_ostream::open(int fd, mode, compression, level)
out_open_fd(s, id, fd, compression, level) ==
    LET s1 == [s EXCEPT !.exc = {"badbit", "failbit"}]
        sel == fd_filters(compression, level)
        chain == push(sel.chain, fd_device(fd))
    IN IF clear_throws(s1.exc, cleared(s.rdbuf, s.state))
       THEN Result("ios_failure", open_throw(s1), FALSE, NoPipe)
       ELSE IF sel.throws
       THEN Result("unknown_codec", open_throw(s1), TRUE, Pipe(id, sel.chain))
       ELSE Result("ok", install(s1, Pipe(id, chain)), TRUE, Pipe(id, chain))

\* The pipeline a scoped pointer gives up is destroyed once more.
Release(rel, pipe) ==
    IF pipe.id = 0 THEN rel ELSE [rel EXCEPT ![pipe.id] = @ + 1]

\* What an open() leaves behind: the new pipeline counted, the old one (after
\* a success) or the half-built one (after a throw) released.
Opened(rel, old, r) ==
    IF ~r.made THEN rel
    ELSE IF r.outcome = "ok" THEN Append(Release(rel, old.stream), 0)
    ELSE Append(rel, 1)

\* The sink is opened before stream.reset() tears the old pipeline down.
OutFiles(fs, old, r) ==
    IF r.outcome /= "ok" THEN fs
    ELSE LET dev == Devices(r.pipe.chain)[1]
             fs1 == IF dev.dev = "file"
                    THEN OpenForWrite(fs, dev.name, dev.mode) ELSE fs
         IN Teardown(fs1, old.stream)

NextId == Len(released) + 1

\* filter_ostream::filter_ostream()
CtorOut ==
    /\ os.life = "none"
    /\ os' = Constructed
    /\ lastCall' = Call("ctor", <<>>, "", DefaultLevel, "ok", <<>>)
    /\ UNCHANGED <<is, files, released, focus>>

\* filter_ostream::filter_ostream(const std::string & file, mode, compression,
\* level): open(file, mode, compression, level) on the new object
CtorOutFile(file, mode, compression, level, canOpen) ==
    /\ os.life = "none"
    /\ Len(released) < MaxPipes
    /\ LET r == out_open_file(Constructed, NextId, file, mode, compression,
                              level, canOpen)
       IN /\ os' = IF r.outcome = "ok" THEN r.s ELSE Unbuilt
          /\ released' = Opened(released, Constructed, r)
          /\ files' = OutFiles(files, Constructed, r)
          /\ lastCall' = Call("ctor_file", file, compression, level,
                              r.outcome, <<>>)
    /\ UNCHANGED <<is, focus>>

\* filter_ostream::filter_ostream(int fd, mode, compression, level):
\* open(fd, mode), the compression and the level left at their defaults
CtorOutFd(fd, compression, level) ==
    /\ os.life = "none"
    /\ Len(released) < MaxPipes
    /\ LET r == out_open_fd(Constructed, NextId, fd, "", DefaultLevel)
       IN /\ os' = IF r.outcome = "ok" THEN r.s ELSE Unbuilt
          /\ released' = Opened(released, Constructed, r)
          /\ files' = OutFiles(files, Constructed, r)
          /\ lastCall' = Call("ctor_fd", <<>>, compression, level,
                              r.outcome, <<>>)
    /\ UNCHANGED <<is, focus>>

OpenOutFile(file, mode, compression, level, canOpen) ==
    /\ os.life = "alive"
    /\ Len(released) < MaxPipes
    /\ LET r == out_open_file(os, NextId, file, mode, compression, level,
                              canOpen)
       IN /\ os' = r.s
          /\ released' = Opened(released, os, r)
          /\ files' = OutFiles(files, os, r)
          /\ lastCall' = Call("open_file", file, compression, level,
                              r.outcome, <<>>)
    /\ UNCHANGED <<is, focus>>

OpenOutFd(fd, compression, level) ==
    /\ os.life = "alive"
    /\ Len(released) < MaxPipes
    /\ LET r == out_open_fd(os, NextId, fd, compression, level)
       IN /\ os' = r.s
          /\ released' = Opened(released, os, r)
          /\ files' = OutFiles(files, os, r)
          /\ lastCall' = Call("open_fd", <<>>, compression, level,
                              r.outcome, <<>>)
    /\ UNCHANGED <<is, focus>>

\* A plausible slip: close() goes back to the buffer of construction.
closed_to_std(s) == [s EXCEPT !.rdbuf = "std", !.state = cleared("std", {})]

\* rdbuf(0): the buffer is dropped and clear() leaves badbit; the pipeline
\* itself stays with the stream member (stream->close() is commented out).
closed(s) == [s EXCEPT !.rdbuf = "null", !.state = cleared("null", {})]

\* filter_ostream::close()
CloseOut ==
    /\ os.life = "alive"
    /\ os' = closed(os)
    /\ lastCall' = Call("close", <<>>, "", DefaultLevel,
                        IF clear_throws(os.exc, os'.state)
                        THEN "ios_failure" ELSE "ok", <<>>)
    /\ UNCHANGED <<is, files, released, focus>>

\* format("%s%s%s", fail() ? " fail" : "", bad() ? " bad" : "",
\*        eof() ? " eof" : ""), or "good" when the stream converts to true
status(state) ==
    IF ~fail(state) THEN <<"good">>
    ELSE (IF fail(state) THEN <<" ", "fail">> ELSE <<>>)
         \o (IF bad(state) THEN <<" ", "bad">> ELSE <<>>)
         \o (IF eof(state) THEN <<" ", "eof">> ELSE <<>>)

\* filter_ostream::status()
Status ==
    /\ os.life = "alive"
    /\ lastCall' = Call("status", <<>>, "", DefaultLevel, "ok",
                        status(os.state))
    /\ UNCHANGED <<os, is, files, released, focus>>

\* operator<< / write on the stream: a stream that is not good() only gains
\* failbit; a write the buffer cannot take sets badbit.
Write(payload, ok) ==
    /\ os.life = "alive"
    /\ Len(os.stream.buf) + Len(payload) <= MaxBuf
    /\ os' = IF os.state /= {}
             THEN [os EXCEPT !.state = @ \cup {"failbit"}]
             ELSE IF ~ok THEN [os EXCEPT !.state = @ \cup {"badbit"}]
             ELSE IF os.rdbuf = "pipe"
             THEN [os EXCEPT !.stream.buf = @ \o payload]
             ELSE os
    /\ lastCall' = Call("write", <<>>, "", DefaultLevel,
                        IF clear_throws(os.exc, os'.state)
                        THEN "ios_failure" ELSE "ok", payload)
    /\ UNCHANGED <<is, files, released, focus>>

\* std::ios::setstate, inherited through ostream
SetState(bits) ==
    /\ os.life = "alive"
    /\ os' = [os EXCEPT !.state = cleared(os.rdbuf, @ \cup bits)]
    /\ lastCall' = Call("setstate", <<>>, "", DefaultLevel,
                        IF clear_throws(os.exc, os'.state)
                        THEN "ios_failure" ELSE "ok", <<>>)
    /\ UNCHANGED <<is, files, released, focus>>

\* ~filter_ostream: the stream member gives its pipeline up.  The fields are
\* kept as they were at destruction.
DestroyOut ==
    /\ os.life = "alive"
    /\ os' = [os EXCEPT !.life = "destroyed"]
    /\ released' = Release(released, os.stream)
    /\ files' = Teardown(files, os.stream)
    /\ lastCall' = Call("destroy", <<>>, "", DefaultLevel, "ok", <<>>)
    /\ UNCHANGED <<is, focus>>

(***************************************************************************)
(* filter_istream                                                          *)
(***************************************************************************)
\* filter_istream::open(const std::string &, mode)
in_open(s, id, file_, fs, canOpen) ==
    LET file == NormFile(file_)
        filters == in_filters(file)
        chain == IF file = Dash THEN push(filters, std_device("stdin"))
                 ELSE push(filters, file_device(file, "in"))
    IN IF file /= Dash /\ ~(fs[file].exists /\ canOpen)
       THEN Result("open_failed", open_throw(s), TRUE, Pipe(id, filters))
       ELSE Result("ok", install(s, Pipe(id, chain)), TRUE, Pipe(id, chain))

\* filter_istream::filter_istream()
CtorIn ==
    /\ is.life = "none"
    /\ is' = Constructed
    /\ lastCall' = Call("in_ctor", <<>>, "", DefaultLevel, "ok", <<>>)
    /\ UNCHANGED <<os, files, released, focus>>

\* filter_istream::filter_istream(const std::string & file, mode)
CtorInFile(file, canOpen) ==
    /\ is.life = "none"
    /\ Len(released) < MaxPipes
    /\ LET r == in_open(Constructed, NextId, file, files, canOpen)
       IN /\ is' = IF r.outcome = "ok" THEN r.s ELSE Unbuilt
          /\ released' = Opened(released, Constructed, r)
          /\ lastCall' = Call("in_ctor_file", file, "", DefaultLevel,
                              r.outcome, <<>>)
    /\ UNCHANGED <<os, files, focus>>

OpenIn(file, canOpen) ==
    /\ is.life = "alive"
    /\ Len(released) < MaxPipes
    /\ LET r == in_open(is, NextId, file, files, canOpen)
       IN /\ is' = r.s
          /\ released' = Opened(released, is, r)
          /\ lastCall' = Call("in_open", file, "", DefaultLevel,
                              r.outcome, <<>>)
    /\ UNCHANGED <<os, files, focus>>

\* filter_istream::close()
CloseIn ==
    /\ is.life = "alive"
    /\ is' = closed(is)
    /\ lastCall' = Call("in_close", <<>>, "", DefaultLevel,
                        IF clear_throws(is.exc, is'.state)
                        THEN "ios_failure" ELSE "ok", <<>>)
    /\ UNCHANGED <<os, files, released, focus>>

\* Reading the stream to its end: the source's bytes through the filters.
\* The end of input leaves eofbit and failbit, bytes a filter rejects badbit.
Read ==
    /\ is.life = "alive"
    /\ LET dev == Devices(is.stream.chain)[1]
           bytes == IF is.rdbuf = "pipe" /\ dev.dev \in {"file", "null"}
                    THEN files[dev.name].data ELSE <<>>
           d == IF is.rdbuf = "pipe"
                THEN Decode(Filters(is.stream.chain), bytes)
                ELSE [ok |-> TRUE, data |-> <<>>]
       IN /\ is' = IF is.state /= {}
                   THEN [is EXCEPT !.state = @ \cup {"failbit"}]
                   ELSE IF d.ok
                   THEN [is EXCEPT !.got = d.data,
                                   !.state = {"eofbit", "failbit"}]
                   ELSE [is EXCEPT !.state = {"badbit"}]
          /\ lastCall' = Call("read", <<>>, "", DefaultLevel,
                              IF is.state /= {} THEN "not_good"
                              ELSE IF d.ok THEN "eof" ELSE "bad_data",
                              <<>>)
    /\ UNCHANGED <<os, files, released, focus>>

\* ~filter_istream
DestroyIn ==
    /\ is.life = "alive"
    /\ is' = [is EXCEPT !.life = "destroyed"]
    /\ released' = Release(released, is.stream)
    /\ lastCall' = Call("in_destroy", <<>>, "", DefaultLevel, "ok", <<>>)
    /\ UNCHANGED <<os, files, focus>>

(***************************************************************************)
(* Specifications                                                          *)
(***************************************************************************)
\* Spec: the life of one stream, an output stream or an input stream, on a
\* few names: construction, open() (succeeding and failing), writes and
\* reads, close() and destruction in any order.
Init ==
    /\ os = Unbuilt
    /\ is = Unbuilt
    /\ files = [InitFiles(LifeNames) EXCEPT
                   ![<<"a">> \o GZ] =
                       [exists |-> TRUE, data |-> Compress("gzip", <<"p">>)]]
    /\ released = <<>>
    /\ lastCall = NoCall
    /\ focus = <<>>

OutOnly == is.life = "none"

InOnly == os.life = "none"

Next ==
    \/ OutOnly /\ CtorOut
    \/ /\ OutOnly
       /\ \E f \in LifeNames, m \in Modes, c \in LifeCompressions,
             l \in Levels, ok \in BOOLEAN : CtorOutFile(f, m, c, l, ok)
    \/ /\ OutOnly
       /\ \E fd \in Fds, c \in LifeCompressions, l \in Levels :
             CtorOutFd(fd, c, l)
    \/ /\ OutOnly
       /\ \E f \in LifeNames, m \in Modes, c \in LifeCompressions,
             ok \in BOOLEAN : OpenOutFile(f, m, c, DefaultLevel, ok)
    \/ /\ OutOnly
       /\ \E fd \in Fds, c \in LifeCompressions, l \in Levels :
             OpenOutFd(fd, c, l)
    \/ OutOnly /\ CloseOut
    \/ OutOnly /\ \E p \in Payloads, ok \in BOOLEAN : Write(p, ok)
    \/ OutOnly /\ DestroyOut
    \/ InOnly /\ CtorIn
    \/ InOnly /\ \E f \in LifeNames, ok \in BOOLEAN : CtorInFile(f, ok)
    \/ InOnly /\ \E f \in LifeNames, ok \in BOOLEAN : OpenIn(f, ok)
    \/ InOnly /\ CloseIn
    \/ InOnly /\ Read
    \/ InOnly /\ DestroyIn

Spec == Init /\ [][Next]_vars

\* SpecStatus: the condition flags of an output stream and status().
NextStatus ==
    \/ CtorOut
    \/ \E fd \in Fds : OpenOutFd(fd, "", DefaultLevel)
    \/ CloseOut
    \/ \E ok \in BOOLEAN : Write(<<"p">>, ok)
    \/ \E b \in (SUBSET Bits) \ {{}} : SetState(b)
    \/ Status

SpecStatus == Init /\ [][NextStatus]_vars

\* SpecNames: every name of Names written through a fresh output stream and
\* read back through a fresh input stream.
InitNames ==
    /\ focus \in Names
    /\ os = Unbuilt
    /\ is = Unbuilt
    /\ files = InitFiles({focus})
    /\ released = <<>>
    /\ lastCall = NoCall

NextNames ==
    \/ /\ is.life = "none" /\ released = <<>>
       /\ \E c \in Compressions, ok \in BOOLEAN :
             CtorOutFile(focus, "out", c, DefaultLevel, ok)
    \/ is.life = "none" /\ released = <<>> /\ CtorOut
    \/ /\ os.rdbuf = "std"
       /\ \E fd \in Fds, c \in Compressions : OpenOutFd(fd, c, DefaultLevel)
    \/ /\ os.rdbuf = "pipe"
       /\ \E p \in Payloads : Write(p, TRUE)
    \/ os.rdbuf = "pipe" /\ DestroyOut
    \/ /\ os.life /= "alive" /\ Len(released) <= 1
       /\ \E ok \in BOOLEAN : CtorInFile(focus, ok)
    \/ lastCall.op /= "read" /\ Read

SpecNames == InitNames /\ [][NextNames]_vars

(***************************************************************************)
(* Reference definitions of the claims                                     *)
(***************************************************************************)
KnownCompressions ==
    {"", "none", "gz", "gzip", "bz2", "bzip2", "lzma", "xz"}

\* The tail of `name` is exactly `suffix`.
HasTail(name, suffix) ==
    /\ Len(name) >= Len(suffix)
    /\ \A i \in 1..Len(suffix) :
          name[Len(name) - Len(suffix) + i] = suffix[i]

SuffixCodec(name) ==
    CASE HasTail(name, GZ) \/ HasTail(name, GZT) -> "gzip"
      [] HasTail(name, BZ2) \/ HasTail(name, BZ2T) -> "bzip2"
      [] HasTail(name, XZ) \/ HasTail(name, XZT) -> "lzma"
      [] OTHER -> "none"

RefResolve(compression, name) ==
    CASE compression \in {"gz", "gzip"} -> "gzip"
      [] compression \in {"bz2", "bzip2"} -> "bzip2"
      [] compression \in {"lzma", "xz"} -> "lzma"
      [] compression = "none" -> "none"
      [] compression = "" -> SuffixCodec(name)
      [] OTHER -> "error"

Stages(codec) == IF codec = "none" THEN <<>> ELSE <<codec>>

Codecs(chain) == [i \in 1..Len(Filters(chain)) |-> Filters(chain)[i].codec]

Kinds(chain) == {chain[i].kind : i \in 1..Len(chain)}

Device(chain) == Devices(chain)[1]

OutputOpens == {"ctor_file", "open_file", "open_fd"}

AllReleasedOnce == \A i \in 1..Len(released) : released[i] = 1

\* The status string of the claim: the names of the set flags, in the order
\* fail, bad, eof, joined by single spaces, or "good".
RECURSIVE JoinSpaces(_)
JoinSpaces(words) ==
    IF Len(words) <= 1 THEN words
    ELSE <<Head(words), " ">> \o JoinSpaces(Tail(words))

ClaimedStatus(state) ==
    IF state = {} THEN <<"good">>
    ELSE JoinSpaces((IF "failbit" \in state THEN <<"fail">> ELSE <<>>)
                    \o (IF "badbit" \in state THEN <<"bad">> ELSE <<>>)
                    \o (IF "eofbit" \in state THEN <<"eof">> ELSE <<>>))

(***************************************************************************)
(* Claims                                                                  *)
(***************************************************************************)
\* C1: an output open() given a compression name outside the vocabulary
\* fails with the unknown-codec error, opens no sink (no file is created or
\* truncated) and installs nothing.
C1_UnknownCodecIsHardFailure ==
    [][(lastCall'.op \in OutputOpens
        /\ lastCall'.comp \notin KnownCompressions)
       => /\ lastCall'.outcome = "unknown_codec"
          /\ files' = files
          /\ os'.stream = os.stream]_vars

\* C2: the compressor installed by the file-name output open() is the one
\* the reference resolver gives for (compression name, file name), and the
\* open fails with the unknown-codec error exactly when the resolver does.
C2_OutputCodecMatchesResolver ==
    lastCall.op = "ctor_file" =>
        LET ref == RefResolve(lastCall.comp, lastCall.file)
        IN CASE lastCall.outcome = "ok" ->
                    /\ Codecs(os.stream.chain) = Stages(ref)
                    /\ Kinds(Filters(os.stream.chain)) \subseteq {"compressor"}
             [] lastCall.outcome = "unknown_codec" -> ref = "error"
             [] OTHER -> lastCall.outcome = "open_failed" /\ ref /= "error"

\* C2 witness: "out.gz" opened with "none" is written uncompressed.
C2_Witness ==
    /\ lastCall.op = "ctor_file"
    /\ lastCall.file = <<"o", "u", "t">> \o GZ
    /\ lastCall.comp = "none"
    /\ lastCall.outcome = "ok"
    /\ Filters(os.stream.chain) = <<>>

\* C3: the input open() installs the gzip, bzip2 or lzma decompressor
\* exactly when the name's tail is that codec's suffix (or its "~" variant),
\* and no decompressor otherwise.
C3_InputSuffixInference ==
    (lastCall.op = "in_ctor_file" /\ lastCall.outcome = "ok") =>
        /\ Codecs(is.stream.chain) = Stages(SuffixCodec(lastCall.file))
        /\ Kinds(Filters(is.stream.chain)) \subseteq {"decompressor"}

\* C3 witness: "archive.gz~" is opened for input with the gzip decompressor.
C3_Witness ==
    /\ lastCall.op = "in_ctor_file"
    /\ lastCall.outcome = "ok"
    /\ lastCall.file = Archive \o GZT
    /\ Codecs(is.stream.chain) = <<"gzip">>

\* What was written to a regular file by the output stream, now destroyed,
\* has been read back through the input stream.
ReadBack ==
    /\ lastCall.op = "read"
    /\ os.life = "destroyed"
    /\ os.stream.id /= 0
    /\ Device(os.stream.chain).dev = "file"

\* C4 as stated: whatever the compression name and the file name, reading
\* the name back yields the payload written.
C4_RoundTripAnyName ==
    ReadBack => (lastCall.outcome = "eof" /\ is.got = os.stream.buf)

\* C4 amended: reading the name back yields the payload written whenever the
\* compressor selected on output is the codec the name's suffix infers.
C4_RoundTripWhenSuffixAgrees ==
    (ReadBack /\ Codecs(os.stream.chain) = Stages(SuffixCodec(focus)))
        => (lastCall.outcome = "eof" /\ is.got = os.stream.buf)

\* C4 witness: a payload written with an explicit "gzip" to a ".gz" name is
\* read back.
C4_Witness ==
    /\ ReadBack
    /\ Codecs(os.stream.chain) = <<"gzip">>
    /\ HasTail(focus, GZ)
    /\ os.stream.buf = <<"p">>
    /\ is.got = <<"p">>

\* C5: status() is "good" when no flag is set and otherwise the names of
\* exactly the set flags, in the order fail, bad, eof, joined by single
\* spaces.
C5_StatusNamesSetFlags ==
    lastCall.op = "status" => lastCall.text = ClaimedStatus(os.state)

\* C6: binding to a descriptor, by the constructor or by open(), with
\* compression name C and level L builds the stage the file-name open()
\* builds for explicit C and L, on a sink that does not close the descriptor.
C6_DescriptorBuildsSameStage ==
    (lastCall.op \in {"ctor_fd", "open_fd"} /\ lastCall.outcome = "ok") =>
        /\ Filters(os.stream.chain)
              = file_filters(lastCall.comp, <<"f">>, lastCall.level).chain
        /\ Device(os.stream.chain).dev = "fd"
        /\ ~Device(os.stream.chain).closes

\* C7 as stated: a failed open() never leaves a pipeline as the active
\* buffer.
C7_FailedOpenLeavesNoPipeline ==
    (lastCall.op \in {"open_file", "open_fd", "in_open"}
     /\ lastCall.outcome /= "ok")
        => (os.rdbuf /= "pipe" /\ is.rdbuf /= "pipe")

\* One open() step on stream s: after a success the new pipeline is the
\* active buffer, holds one device and is not released, and the old one is
\* released once more; after a failure the pipeline, the buffer and the
\* flags are as before, no old pipeline is released and no file is touched.
OpenStep(s, t, rel, rel2, fs, fs2, outcome) ==
    IF outcome = "ok"
    THEN /\ t.rdbuf = "pipe"
         /\ t.stream.id = Len(rel2)
         /\ t.stream.id /= s.stream.id
         /\ Len(Devices(t.stream.chain)) = 1
         /\ rel2[t.stream.id] = 0
         /\ s.stream.id /= 0 => rel2[s.stream.id] = rel[s.stream.id] + 1
    ELSE /\ t.rdbuf = s.rdbuf
         /\ t.stream = s.stream
         /\ t.state = s.state
         /\ fs2 = fs
         /\ \A i \in 1..Len(rel) : rel2[i] = rel[i]
         /\ \A i \in (Len(rel) + 1)..Len(rel2) : rel2[i] = 1

\* C7 amended: open() is all or nothing, and a failed open() leaves the
\* previous pipeline installed.
C7_OpenAllOrNothing ==
    [][/\ lastCall'.op \in {"open_file", "open_fd"}
          => OpenStep(os, os', released, released', files, files',
                      lastCall'.outcome)
       /\ lastCall'.op = "in_open"
          => OpenStep(is, is', released, released', files, files',
                      lastCall'.outcome)]_vars

\* C7 witness: an open() has failed on a Bound stream, whose pipeline is
\* still the active buffer.
C7_Witness ==
    /\ lastCall.op \in {"open_file", "in_open"}
    /\ lastCall.outcome \in {"unknown_codec", "open_failed"}
    /\ os.rdbuf = "pipe" \/ is.rdbuf = "pipe"

\* C8 as stated: close() leads back to the state of a default-constructed
\* stream: the standard stream is the active buffer and no flag is set.
C8_CloseRestoresConstructed ==
    /\ lastCall.op = "close" => (os.rdbuf = "std" /\ os.state = {})
    /\ lastCall.op = "in_close" => (is.rdbuf = "std" /\ is.state = {})

\* The three states of a live stream.
Lifecycle(s) ==
    s.life = "alive" =>
        /\ s.rdbuf \in {"std", "pipe", "null"}
        /\ s.rdbuf = "std" => s.stream = NoPipe
        /\ s.rdbuf = "pipe" => (s.stream.id /= 0 /\ released[s.stream.id] = 0)
        /\ s.rdbuf = "null" => "badbit" \in s.state

\* C8 amended: a live stream is Default, Bound or Closed; a successful
\* open() leads to Bound with no flag set; close() leads to Closed, with no
\* active buffer and the bad flag set.
C8_ThreeStateLifecycle ==
    /\ Lifecycle(os)
    /\ Lifecycle(is)
    /\ (lastCall.op \in OutputOpens \cup {"ctor_fd"} /\ lastCall.outcome = "ok")
          => (os.rdbuf = "pipe" /\ os.state = {})
    /\ (lastCall.op \in {"in_open", "in_ctor_file"} /\ lastCall.outcome = "ok")
          => (is.rdbuf = "pipe" /\ is.state = {})
    /\ lastCall.op = "close" => (os.rdbuf = "null" /\ os.state = {"badbit"})
    /\ lastCall.op = "in_close" => (is.rdbuf = "null" /\ is.state = {"badbit"})

\* C8 witness: a Bound output stream has been closed.
C8_Witness ==
    /\ lastCall.op = "close"
    /\ os.stream.id /= 0
    /\ os.rdbuf = "null"

\* C9: no pipeline is released twice, and once close() or the destructor has
\* returned every pipeline built so far has been released.
C9_ReleasedExactlyOnce ==
    /\ \A i \in 1..Len(released) : released[i] <= 1
    /\ (lastCall.op \in {"close", "in_close", "destroy", "in_destroy"}
        /\ lastCall.outcome = "ok")
          => AllReleasedOnce

\* A pipeline: filters first, one device last, at most one filter.
WellFormed(chain) ==
    /\ Len(Devices(chain)) = 1
    /\ chain[Len(chain)].kind = "device"
    /\ Len(Filters(chain)) <= 1

DeviceFor(name, std) ==
    IF name = Dash THEN std ELSE IF name = <<>> THEN "null" ELSE "file"

\* C10: an installed pipeline ends in exactly one device, the one the file
\* name or the descriptor designates, behind at most one compression or
\* decompression stage.
C10_OneDeviceAtMostOneStage ==
    /\ os.rdbuf = "pipe" => WellFormed(os.stream.chain)
    /\ is.rdbuf = "pipe" => WellFormed(is.stream.chain)
    /\ (lastCall.op = "ctor_file" /\ lastCall.outcome = "ok")
          => /\ Device(os.stream.chain).dev = DeviceFor(lastCall.file, "stdout")
             /\ Device(os.stream.chain).name
                   = IF lastCall.file = Dash THEN <<>>
                     ELSE NormFile(lastCall.file)
    /\ (lastCall.op = "open_fd" /\ lastCall.outcome = "ok")
          => Device(os.stream.chain).dev = "fd"
    /\ (lastCall.op = "in_ctor_file" /\ lastCall.outcome = "ok")
          => /\ Device(is.stream.chain).dev = DeviceFor(lastCall.file, "stdin")
             /\ Device(is.stream.chain).name
                   = IF lastCall.file = Dash THEN <<>>
                     ELSE NormFile(lastCall.file)

\* C10 witness: a name that holds two suffix texts, ".gz.xz", is opened for
\* input behind one decompressor.
C10_Witness ==
    /\ is.rdbuf = "pipe"
    /\ focus = GZ \o XZ
    /\ Len(Filters(is.stream.chain)) = 1
====
